---- MODULE Spec2Model ----
(***************************************************************************)
(* Process / process-group / session bookkeeping of starry-process         *)
(* (src/src/process.rs with the three global tables of src/src/table.rs).  *)
(*                                                                         *)
(* Objects are keyed by their immutable id: a Process by its pid, a        *)
(* ProcessGroup by its pgid, a Session by its sid.  Pids come from a       *)
(* monotonically increasing allocator and are never reused, and a group or *)
(* session id is always the pid of the process that created it.            *)
(*                                                                         *)
(* A Weak reference is modelled by the id it points at, or by 0 when       *)
(* upgrade() yields None (Weak::new(), or the referent has been dropped).  *)
(* An object is dropped as soon as no Arc keeps it: Normalize, applied at  *)
(* the end of every public operation, turns every Weak to a dropped object *)
(* into 0.  Callers are taken to drop their own handles when a call        *)
(* returns.                                                                *)
(*                                                                         *)
(* Three specifications share the operations: Spec, from boot; SpecJoined, *)
(* from the state in which a forked process has joined the group of its    *)
(* session leader; SpecThreads, the thread group of one process            *)
(* (src/src/thread.rs).  The last section unfolds new_child, exit and free *)
(* into the lock events they make.                                         *)
(***************************************************************************)
EXTENDS Integers, FiniteSets, Sequences, TLC

\* Number of pids the allocator hands out (bound of the model).
MaxPid == 4

\* Number of calls of new_child, create_session, set_group, exit and free
\* (bound of the model).
MaxCall == 5

\* Number of thread ids of a thread group (bound of the model).
MaxTid == 3

\* Number of calls of Thread::exit on a thread group (bound of the model).
MaxExit == 4

\* Largest exit code passed to Thread::exit (bound of the model).
MaxCode == 2

Pids == 1..MaxPid

\* thread ids, drawn from the space of the process ids
Tids == 1..MaxTid

\* the exit codes passed to Thread::exit; 0 is the code before any exit
Codes == 1..MaxCode

\* the group ids passed to set_group: the pids in use and those not yet in use
PgidArgs == Pids

\* upgrade() of a Weak yields None
None == 0

VARIABLES
    next_pid,             \* next id of the allocator
    calls,                \* calls made so far, new_init apart
    process_table,        \* PROCESS_TABLE: keys
    process_group_table,  \* PROCESS_GROUP_TABLE: keys
    session_table,        \* SESSION_TABLE: keys
    children,             \* ProcessInner.children, keys
    parent,               \* ProcessInner.parent (Weak)
    group,                \* ProcessInner.group (Weak)
    is_zombie,            \* Process.is_zombie
    processes,            \* ProcessGroupInner.processes, keys
    session,              \* ProcessGroupInner.session (Weak)
    process_groups,       \* SessionInner.process_groups, keys
    halted,               \* the kernel panicked or a CPU spins on a lock
    last,                 \* the last public call: operation, receiver, result
    threads,              \* ThreadGroup.threads of one process, keys
    exit_code,            \* ThreadGroup.exit_code
    group_exited,         \* ThreadGroup.group_exited
    tcalls,               \* the calls made on the thread group so far
    frame,                \* the call in progress on each process, when calls overlap
    owner                 \* the holder of each Process.inner, when calls overlap

vars == <<next_pid, calls, process_table, process_group_table, session_table, children,
          parent, group, is_zombie, processes, session, process_groups, halted, last,
          threads, exit_code, group_exited, tcalls, frame, owner>>

\* the calls that overlap and the locks they hold
cc == <<frame, owner>>

\* the thread group of a process and the record of its calls
tg == <<threads, exit_code, group_exited, tcalls>>

heap == <<process_table, process_group_table, session_table, children,
          parent, group, is_zombie, processes, session, process_groups>>

\* The program state as one value, so that the operations compose.
St ==
    [process_table |-> process_table, process_group_table |-> process_group_table,
     session_table |-> session_table, children |-> children, parent |-> parent,
     group |-> group, is_zombie |-> is_zombie, processes |-> processes,
     session |-> session, process_groups |-> process_groups, res |-> "Ok"]

----------------------------------------------------------------------------
\* Arc / Weak lifetime

RECURSIVE Closure(_, _)
\* every process reachable from set through the owning children maps
Closure(s, set) ==
    LET nxt == set \cup UNION {s.children[p] : p \in set}
    IN  IF nxt = set THEN set ELSE Closure(s, nxt)

\* sessions are owned by the session table only
AliveSessions(s) == s.session_table

\* groups are owned by the group table and by their session's process_groups
AliveGroups(s) ==
    s.process_group_table \cup UNION {s.process_groups[x] : x \in AliveSessions(s)}

\* processes are owned by the process table, their group and their parent
AliveProcesses(s) ==
    Closure(s, s.process_table \cup UNION {s.processes[g] : g \in AliveGroups(s)})

\* Drop what no Arc owns any more; a Weak to a dropped object upgrades to None.
Normalize(s) ==
    LET aS == AliveSessions(s)
        aG == AliveGroups(s)
        aP == AliveProcesses(s)
    IN  [s EXCEPT
          !.children = [p \in Pids |-> IF p \in aP THEN s.children[p] ELSE {}],
          !.parent = [p \in Pids |-> IF p \in aP /\ s.parent[p] \in aP
                                     THEN s.parent[p] ELSE None],
          !.group = [p \in Pids |-> IF p \in aP /\ s.group[p] \in aG
                                    THEN s.group[p] ELSE None],
          !.is_zombie = [p \in Pids |-> p \in aP /\ s.is_zombie[p]],
          !.processes = [g \in Pids |-> IF g \in aG THEN s.processes[g] ELSE {}],
          !.session = [g \in Pids |-> IF g \in aG /\ s.session[g] \in aS
                                      THEN s.session[g] ELSE None],
          !.process_groups = [x \in Pids |-> IF x \in aS THEN s.process_groups[x] ELSE {}]]

----------------------------------------------------------------------------
\* Constructors

\* Process::new
ProcessNew(s, pid, par) ==
    [s EXCEPT !.children[pid] = {}, !.parent[pid] = par, !.group[pid] = None,
              !.is_zombie[pid] = FALSE,
              !.process_table = @ \cup {pid}]

\* ProcessGroup::new(&process): a group led by the process, which joins it
ProcessGroupNew(s, p) ==
    [s EXCEPT !.processes[p] = {p}, !.session[p] = None, !.group[p] = p,
              !.process_group_table = @ \cup {p}]

\* Session::new(&group): a session led by the group, which joins it
SessionNew(s, g) ==
    [s EXCEPT !.process_groups[g] = {g}, !.session[g] = g,
              !.session_table = @ \cup {g}]

\* Process::new_init
new_init(s, pid) ==
    SessionNew(ProcessGroupNew(ProcessNew(s, pid, None), pid), pid)

\* Process::new_child
new_child(s, p, pid) ==
    LET s1 == ProcessNew(s, pid, p)
    IN  [s1 EXCEPT !.children[p] = @ \cup {pid}, !.group[pid] = s.group[p]]

----------------------------------------------------------------------------
\* Builds.  SpinNoIrq (kspin) spins on a held lock only when built for SMP; on
\* a uniprocessor build lock() always succeeds.  The guard returned by
\* process_group_table() in the `if let` of set_group is a temporary of the
\* scrutinee: it lives to the end of the then-block, and also through the
\* else-block when the crate is built with an edition before 2024.
Builds == [smp : BOOLEAN, edition : {2021, 2024}]

\* a build in which no lock is ever taken twice by the same CPU
NoRelock == [smp |-> FALSE, edition |-> 2024]

----------------------------------------------------------------------------
\* Group and session membership

\* Process::group succeeds (upgrade().unwrap() does not panic)
GroupResolves(s, p) == s.group[p] # None

\* (mutant) an emptied group stays in the process-group table
unlink_keep(s, p, drop_session, locked) ==
    IF ~GroupResolves(s, p) THEN [s EXCEPT !.res = "panic"]
    ELSE [s EXCEPT !.processes[s.group[p]] = @ \ {p}]

\* (mutant) drop_session is taken to be false
unlink_nodrop(s, p, drop_session, locked) ==
    IF ~GroupResolves(s, p) THEN [s EXCEPT !.res = "panic"]
    ELSE
    LET g  == s.group[p]
        s1 == [s EXCEPT !.processes[g] = @ \ {p}]
    IN  IF s1.processes[g] # {} THEN s1
        ELSE IF locked THEN [s1 EXCEPT !.res = "deadlock"]
        ELSE
        LET s2 == [s1 EXCEPT !.process_group_table = @ \ {g}]
            x  == s2.session[g]
        IN  IF x = None THEN [s2 EXCEPT !.res = "panic"]
            ELSE [s2 EXCEPT !.process_groups[x] = @ \ {g}]

\* (mutant) the session is dropped whatever drop_session says
unlink_drop(s, p, drop_session, locked) ==
    IF ~GroupResolves(s, p) THEN [s EXCEPT !.res = "panic"]
    ELSE
    LET g  == s.group[p]
        s1 == [s EXCEPT !.processes[g] = @ \ {p}]
    IN  IF s1.processes[g] # {} THEN s1
        ELSE IF locked THEN [s1 EXCEPT !.res = "deadlock"]
        ELSE
        LET s2 == [s1 EXCEPT !.process_group_table = @ \ {g}]
            x  == s2.session[g]
        IN  IF x = None THEN [s2 EXCEPT !.res = "panic"]
            ELSE
            LET s3 == [s2 EXCEPT !.process_groups[x] = @ \ {g}]
            IN  IF s3.process_groups[x] = {}
                THEN [s3 EXCEPT !.session_table = @ \ {x}]
                ELSE s3

\* Process::unlink
\* locked: the caller holds the process-group-table spinlock and it spins.
unlink(s, p, drop_session, locked) ==
    IF ~GroupResolves(s, p) THEN [s EXCEPT !.res = "panic"]
    ELSE
    LET g  == s.group[p]
        s1 == [s EXCEPT !.processes[g] = @ \ {p}]
    IN  IF s1.processes[g] # {} THEN s1
        ELSE IF locked THEN [s1 EXCEPT !.res = "deadlock"]
        ELSE
        LET s2 == [s1 EXCEPT !.process_group_table = @ \ {g}]
            x  == s2.session[g]
        IN  IF x = None THEN [s2 EXCEPT !.res = "panic"]
            ELSE
            LET s3 == [s2 EXCEPT !.process_groups[x] = @ \ {g}]
            IN  IF drop_session /\ s3.process_groups[x] = {}
                THEN [s3 EXCEPT !.session_table = @ \ {x}]
                ELSE s3

\* (mutant) the table is not consulted
PgidTaken_m(s, p) == FALSE

\* process_group_table().contains_key(&self.pid)
PgidTaken(s, p) == p \in s.process_group_table

\* (mutant) the leader test is skipped
IsSessionLeader_m(s, p) == FALSE

\* session.sid() == self.pid, the group and its session being resolved
IsSessionLeader(s, p) == s.session[s.group[p]] = p

\* (mutant) the caller is not unlinked from its former group
create_session_m(s, p) ==
    IF PgidTaken(s, p) THEN [s EXCEPT !.res = "PermissionDenied"]
    ELSE IF ~GroupResolves(s, p) \/ s.session[s.group[p]] = None
         THEN [s EXCEPT !.res = "panic"]
    ELSE IF IsSessionLeader(s, p) THEN s
    ELSE SessionNew(ProcessGroupNew(s, p), p)

\* Process::create_session
create_session(s, p) ==
    IF PgidTaken(s, p) THEN [s EXCEPT !.res = "PermissionDenied"]
    ELSE IF ~GroupResolves(s, p) \/ s.session[s.group[p]] = None
         THEN [s EXCEPT !.res = "panic"]
    ELSE IF IsSessionLeader(s, p) THEN s
    ELSE
    LET s1 == unlink(s, p, TRUE, FALSE)
    IN  IF s1.res # "Ok" THEN s1
        ELSE SessionNew(ProcessGroupNew(s1, p), p)

\* (mutant) the test for the current group is skipped
set_group_m(s, p, pgid, build) ==
    IF ~GroupResolves(s, p) THEN [s EXCEPT !.res = "panic"]
    ELSE IF s.session[s.group[p]] = None THEN [s EXCEPT !.res = "panic"]
    ELSE
    LET x == s.session[s.group[p]]
    IN  IF IsSessionLeader(s, p) THEN [s EXCEPT !.res = "PermissionDenied"]
        ELSE IF pgid \in s.process_group_table
        THEN IF pgid \notin s.process_groups[x]
             THEN [s EXCEPT !.res = "PermissionDenied"]
             ELSE LET s1 == unlink(s, p, FALSE, build.smp)
                  IN  IF s1.res # "Ok" THEN s1
                      ELSE [s1 EXCEPT !.processes[pgid] = @ \cup {p},
                                      !.group[p] = pgid]
        ELSE IF pgid # p THEN [s EXCEPT !.res = "PermissionDenied"]
             ELSE LET s1 == unlink(s, p, FALSE, FALSE)
                  IN  IF s1.res # "Ok" THEN s1
                      ELSE LET s2 == ProcessGroupNew(s1, p)
                           IN  [s2 EXCEPT !.session[p] = x,
                                          !.process_groups[x] = @ \cup {p}]

\* (mutant) the caller is unlinked before the target group is examined
set_group_early(s, p, pgid, build) ==
    IF ~GroupResolves(s, p) THEN [s EXCEPT !.res = "panic"]
    ELSE IF pgid = s.group[p] THEN s
    ELSE IF s.session[s.group[p]] = None THEN [s EXCEPT !.res = "panic"]
    ELSE
    LET x  == s.session[s.group[p]]
        s1 == unlink(s, p, FALSE, FALSE)
    IN  IF IsSessionLeader(s, p) THEN [s EXCEPT !.res = "PermissionDenied"]
        ELSE IF s1.res # "Ok" THEN s1
        ELSE IF pgid \in s.process_group_table
        THEN IF pgid \notin s.process_groups[x]
             THEN [s1 EXCEPT !.res = "PermissionDenied"]
             ELSE [s1 EXCEPT !.processes[pgid] = @ \cup {p}, !.group[p] = pgid]
        ELSE IF pgid # p THEN [s1 EXCEPT !.res = "PermissionDenied"]
             ELSE LET s2 == ProcessGroupNew(s1, p)
                  IN  [s2 EXCEPT !.session[p] = x,
                                 !.process_groups[x] = @ \cup {p}]

\* Process::set_group
set_group(s, p, pgid, build) ==
    IF ~GroupResolves(s, p) THEN [s EXCEPT !.res = "panic"]
    ELSE IF pgid = s.group[p] THEN s
    ELSE IF s.session[s.group[p]] = None THEN [s EXCEPT !.res = "panic"]
    ELSE
    LET x == s.session[s.group[p]]
    IN  IF IsSessionLeader(s, p) THEN [s EXCEPT !.res = "PermissionDenied"]
        ELSE IF pgid \in s.process_group_table
        THEN IF pgid \notin s.process_groups[x]
             THEN [s EXCEPT !.res = "PermissionDenied"]
             ELSE LET s1 == unlink(s, p, FALSE, build.smp)
                  IN  IF s1.res # "Ok" THEN s1
                      ELSE [s1 EXCEPT !.processes[pgid] = @ \cup {p},
                                      !.group[p] = pgid]
        ELSE IF pgid # p THEN [s EXCEPT !.res = "PermissionDenied"]
             ELSE LET held == build.smp /\ build.edition < 2024
                      s1   == unlink(s, p, FALSE, held)
                  IN  IF s1.res # "Ok" THEN s1
                      ELSE IF held THEN [s1 EXCEPT !.res = "deadlock"]
                      ELSE LET s2 == ProcessGroupNew(s1, p)
                           IN  [s2 EXCEPT !.session[p] = x,
                                          !.process_groups[x] = @ \cup {p}]

----------------------------------------------------------------------------
\* Exit and reaping

\* (mutant) the walk stops at the first parent
TopAncestor_m(s, q) == q

RECURSIVE TopAncestor(_, _)
\* the loop of Process::exit: follow parent() until it yields None
TopAncestor(s, q) ==
    IF s.parent[q] = None THEN q ELSE TopAncestor(s, s.parent[q])

\* (mutant) the children are moved but keep their parent reference
move_children_to_m(s, p, target) ==
    [s EXCEPT !.children = [q \in Pids |->
                               IF q = target THEN s.children[target] \cup s.children[p]
                               ELSE IF q = p THEN {}
                               ELSE s.children[q]]]

\* Process::move_children_to
move_children_to(s, p, target) ==
    [s EXCEPT !.parent = [c \in Pids |-> IF c \in s.children[p] THEN target
                                         ELSE s.parent[c]],
              !.children = [q \in Pids |->
                               IF q = target THEN s.children[target] \cup s.children[p]
                               ELSE IF q = p THEN {}
                               ELSE s.children[q]]]

\* (mutant) the exiting process leaves its group at once
exit_unlink(s, p) ==
    LET s1 == [s EXCEPT !.is_zombie[p] = TRUE]
        s2 == IF s1.parent[p] # None
              THEN move_children_to(s1, p, TopAncestor(s1, s1.parent[p]))
              ELSE s1
    IN  unlink(s2, p, TRUE, FALSE)

\* Process::exit
exit(s, p) ==
    LET s1 == [s EXCEPT !.is_zombie[p] = TRUE]
    IN  IF s1.parent[p] # None
        THEN move_children_to(s1, p, TopAncestor(s1, s1.parent[p]))
        ELSE s1

\* Process::free, called on a zombie
free(s, p) ==
    LET s1 == unlink(s, p, TRUE, FALSE)
    IN  IF s1.res # "Ok" THEN s1
        ELSE [s1 EXCEPT !.process_table = @ \ {p}]

----------------------------------------------------------------------------
\* Wait

\* ProcessFilter: Any, WithPid(pid), WithPgid(pgid)
Filters ==
    {[kind |-> "Any", id |-> None]}
      \cup [kind : {"WithPid", "WithPgid"}, id : Pids]

\* ProcessFilter::apply does not panic: WithPgid calls group() on the child
Applies(s, f, c) == f.kind = "WithPgid" => GroupResolves(s, c)

\* ProcessFilter::apply
apply(s, f, c) ==
    CASE f.kind = "Any" -> TRUE
      [] f.kind = "WithPid" -> c = f.id
      [] f.kind = "WithPgid" -> s.group[c] = f.id

\* Process::find_zombie_child: the children are visited in the order of the
\* BTreeMap, by ascending pid
find_zombie_child(s, p, f) ==
    IF \E c \in s.children[p] : ~Applies(s, f, c)
    THEN [res |-> "panic", zombie |-> None]
    ELSE
    LET found   == {c \in s.children[p] : apply(s, f, c)}
        zombies == {c \in found : s.is_zombie[c]}
    IN  IF found = {} THEN [res |-> "NotFound", zombie |-> None]
        ELSE IF zombies = {} THEN [res |-> "Ok", zombie |-> None]
        ELSE [res |-> "Ok",
              zombie |-> CHOOSE z \in zombies : \A y \in zombies : z <= y]

----------------------------------------------------------------------------
\* Thread group

\* no call has been made on the thread group
NoCalls ==
    [n |-> 0, exited |-> {}, repeated |-> FALSE, trues |-> 0, true_by |-> None,
     op |-> "none", tid |-> None, code |-> 0, ret |-> FALSE]

\* no call in progress on a process
Idle == [op |-> "none", pc |-> "done", cur |-> None, init |-> None, todo |-> {}, pid |-> None]

\* one call at a time: no call is left in progress and no lock is left held
NoOverlap ==
    /\ frame = [p \in Pids |-> Idle]
    /\ owner = [p \in Pids |-> None]

\* the thread group of a process without threads
NoThreads ==
    /\ threads = {}
    /\ exit_code = 0
    /\ group_exited = FALSE
    /\ tcalls = NoCalls

\* the thread group as one value
Tg == [threads |-> threads, exit_code |-> exit_code, group_exited |-> group_exited]

\* (mutant) the exit code is written whatever group_exited says
ThreadExit_overwrite(g, tid, code) ==
    LET g1 == [g EXCEPT !.exit_code = code]
        g2 == [g1 EXCEPT !.threads = @ \ {tid}]
    IN  [tg |-> g2, ret |-> (g2.threads = {})]

\* (mutant) the result tells whether the group was empty before the removal
ThreadExit_before(g, tid, code) ==
    LET g1 == IF ~g.group_exited THEN [g EXCEPT !.exit_code = code] ELSE g
        g2 == [g1 EXCEPT !.threads = @ \ {tid}]
    IN  [tg |-> g2, ret |-> (g.threads = {})]

\* Thread::exit, under the lock of the thread group
ThreadExit(g, tid, code) ==
    LET g1 == IF ~g.group_exited THEN [g EXCEPT !.exit_code = code] ELSE g
        g2 == [g1 EXCEPT !.threads = @ \ {tid}]
    IN  [tg |-> g2, ret |-> (g2.threads = {})]

\* Process::group_exit
group_exit(g) == [g EXCEPT !.group_exited = TRUE]

----------------------------------------------------------------------------
\* The state machine: one action per public operation

\* the record of a call: its result, the number of children the receiver had
\* when it called exit, and the number of groups the call deregistered
Call(op, p, s) ==
    [op |-> op, pid |-> p, res |-> s.res,
     kids |-> IF op = "exit" THEN Cardinality(children[p]) ELSE 0,
     gone |-> Cardinality(process_group_table \ s.process_group_table)]

\* the call ends: its handles are dropped, or the kernel stops
Commit(r) ==
    \E s \in {IF r.res \in {"panic", "deadlock"} THEN r ELSE Normalize(r)} :
        /\ process_table' = s.process_table
        /\ process_group_table' = s.process_group_table
        /\ session_table' = s.session_table
        /\ children' = s.children
        /\ parent' = s.parent
        /\ group' = s.group
        /\ is_zombie' = s.is_zombie
        /\ processes' = s.processes
        /\ session' = s.session
        /\ process_groups' = s.process_groups
        /\ halted' = (s.res \in {"panic", "deadlock"})

Init ==
    /\ next_pid = 1
    /\ calls = 0
    /\ process_table = {}
    /\ process_group_table = {}
    /\ session_table = {}
    /\ children = [p \in Pids |-> {}]
    /\ parent = [p \in Pids |-> None]
    /\ group = [p \in Pids |-> None]
    /\ is_zombie = [p \in Pids |-> FALSE]
    /\ processes = [p \in Pids |-> {}]
    /\ session = [p \in Pids |-> None]
    /\ process_groups = [p \in Pids |-> {}]
    /\ halted = FALSE
    /\ last = [op |-> "boot", pid |-> None, res |-> "Ok", kids |-> 0, gone |-> 0]
    /\ NoThreads
    /\ NoOverlap

\* the processes that run: registered and not exited
Running == {p \in process_table : ~is_zombie[p]}

\* the init process is created once, at boot
NewInit ==
    /\ ~halted
    /\ UNCHANGED <<tg, cc>>
    /\ next_pid <= MaxPid
    /\ next_pid = 1
    /\ LET r == new_init(St, next_pid)
       IN  Commit(r) /\ last' = Call("new_init", next_pid, r)
    /\ next_pid' = next_pid + 1
    /\ UNCHANGED calls

NewChild ==
    /\ ~halted
    /\ UNCHANGED <<tg, cc>>
    /\ next_pid <= MaxPid
    /\ calls < MaxCall
    /\ calls' = calls + 1
    /\ \E p \in Running :
         LET r == new_child(St, p, next_pid)
         IN  Commit(r) /\ last' = Call("new_child", p, r)
    /\ next_pid' = next_pid + 1

CreateSession ==
    /\ ~halted
    /\ UNCHANGED <<tg, cc>>
    /\ calls < MaxCall
    /\ calls' = calls + 1
    /\ \E p \in Running :
         LET r == create_session(St, p)
         IN  Commit(r) /\ last' = Call("create_session", p, r)
    /\ UNCHANGED next_pid

SetGroup ==
    /\ ~halted
    /\ UNCHANGED <<tg, cc>>
    /\ calls < MaxCall
    /\ calls' = calls + 1
    /\ \E p \in process_table, pgid \in PgidArgs :
         \/ LET r == set_group(St, p, pgid, NoRelock)
            IN  Commit(r) /\ last' = Call("set_group", p, r)
         \/ \E build \in Builds :
              LET r == set_group(St, p, pgid, build)
              IN  r.res = "deadlock" /\ Commit(r) /\ last' = Call("set_group", p, r)
    /\ UNCHANGED next_pid

Exit ==
    /\ ~halted
    /\ UNCHANGED <<tg, cc>>
    /\ calls < MaxCall
    /\ calls' = calls + 1
    /\ \E p \in Running :
         LET r == exit(St, p)
         IN  Commit(r) /\ last' = Call("exit", p, r)
    /\ UNCHANGED next_pid

Free ==
    /\ ~halted
    /\ UNCHANGED <<tg, cc>>
    /\ calls < MaxCall
    /\ calls' = calls + 1
    /\ \E p \in process_table :
         /\ is_zombie[p]
         /\ LET r == free(St, p)
            IN  Commit(r) /\ last' = Call("free", p, r)
    /\ UNCHANGED next_pid

FindZombieChild ==
    /\ ~halted
    /\ UNCHANGED <<tg, cc>>
    /\ calls < MaxCall
    /\ calls' = calls + 1
    /\ \E p \in process_table, f \in Filters :
         LET r == [St EXCEPT !.res = find_zombie_child(St, p, f).res]
         IN  Commit(r) /\ last' = Call("find_zombie_child", p, r)
    /\ UNCHANGED next_pid

Next ==
    \/ NewInit \/ NewChild \/ CreateSession \/ SetGroup \/ Exit \/ Free
    \/ FindZombieChild

Spec == Init /\ [][Next]_vars

----------------------------------------------------------------------------
\* Sanity of the representation

TypeOK ==
    /\ next_pid \in 1..(MaxPid + 1)
    /\ process_table \subseteq Pids
    /\ process_group_table \subseteq Pids
    /\ session_table \subseteq Pids
    /\ children \in [Pids -> SUBSET Pids]
    /\ parent \in [Pids -> Pids \cup {None}]
    /\ group \in [Pids -> Pids \cup {None}]
    /\ processes \in [Pids -> SUBSET Pids]
    /\ session \in [Pids -> Pids \cup {None}]
    /\ process_groups \in [Pids -> SUBSET Pids]
    /\ threads \subseteq Tids
    /\ exit_code \in {0} \cup Codes
    /\ group_exited \in BOOLEAN
    /\ owner \in [Pids -> Pids \cup {None}]
    /\ \A p \in Pids : frame[p].op \in {"none", "exit", "new_child"}

\* the group table and the sessions' group maps own the same groups, so a
\* group id names one group object at a time
TablesInSync ==
    ~halted =>
      /\ \A x \in session_table : \A g \in process_groups[x] :
            g \in process_group_table /\ session[g] = x
      /\ \A g \in process_group_table :
            session[g] \in session_table /\ g \in process_groups[session[g]]
      /\ \A g \in process_group_table : processes[g] \subseteq process_table

\* a session leader is a member of the registered group that bears its pid
LeaderInOwnGroup ==
    ~halted =>
      \A p \in process_table :
         (group[p] # None /\ session[group[p]] = p) =>
            (group[p] = p /\ p \in process_group_table /\ p \in processes[p])

----------------------------------------------------------------------------
\* Properties

\* the caller of the last call
Caller == last.pid

\* the processes that have been freed: allocated, no longer registered
Freed == (1..(next_pid - 1)) \ process_table

RECURSIVE Ancestors(_)
\* the parent, the parent's parent, ... of p
Ancestors(p) ==
    IF parent[p] = None THEN {} ELSE {parent[p]} \cup Ancestors(parent[p])

\* C1: every process that has not been freed has a group reference that
\* resolves to a group registered in the process-group table, whose session
\* resolves to a registered session.
C1_GroupSessionTotality ==
    ~halted =>
      \A p \in process_table :
         /\ group[p] # None
         /\ group[p] \in process_group_table
         /\ session[group[p]] \in session_table

\* C2: a process that has a parent is among its parent's children if and
\* only if it has not been freed.
C2_TreeIntegrity ==
    ~halted =>
      \A p \in Pids :
         parent[p] # None => (p \in children[parent[p]] <=> p \notin Freed)

\* C3: after P.new_child(pid) the child's parent is P, P's children contain
\* the child, the child's group is P's group and that group's member set
\* contains the child.
C3_ForkMembership ==
    (last.op = "new_child" /\ ~halted) =>
      LET c == next_pid - 1
      IN  /\ parent[c] = Caller
          /\ c \in children[Caller]
          /\ group[c] = group[Caller]
          /\ group[c] # None => c \in processes[group[c]]

\* C4: when a process that has a parent calls exit, each of its children
\* gets as parent the ancestor of the caller that has no parent, is among
\* that ancestor's children, and the caller's children set is empty.
C4_Reparenting ==
    [][(last'.op = "exit" /\ parent[last'.pid] # None) =>
         LET c == last'.pid
         IN  /\ \A g \in children[c] :
                  /\ parent'[g] \in Ancestors(c)
                  /\ parent[parent'[g]] = None
                  /\ parent'[parent'[g]] = None
                  /\ g \in children'[parent'[g]]
             /\ children'[c] = {}]_vars

\* C4 witness: a process with children and a grandparent has exited
C4_Witness ==
    /\ last.op = "exit" /\ last.kids > 0
    /\ parent[Caller] # None
    /\ parent[parent[Caller]] # None
    /\ children[Caller] = {}

\* C5: after free returns, the process is absent from the process table and
\* from its former group's member set; when it was the group's last member
\* the group is gone from the process-group table and from its session's
\* group set, and the session is gone from the session table when that was
\* its last group; otherwise group and session stay registered.
C5_ReapingCascade ==
    [][(last'.op = "free" /\ last'.res = "Ok") =>
         LET c == last'.pid
             g == group[c]
             x == session[g]
         IN  /\ c \notin process_table'
             /\ c \notin processes'[g]
             /\ IF processes[g] = {c}
                THEN /\ g \notin process_group_table'
                     /\ g \notin process_groups'[x]
                     /\ IF process_groups[x] = {g}
                        THEN x \notin session_table'
                        ELSE x \in session_table'
                ELSE /\ g \in process_group_table'
                     /\ x \in session_table'
                     /\ g \in process_groups'[x]]_vars

\* C5 witness: a free has removed the last group of the last session
C5_Witness ==
    /\ last.op = "free" /\ last.res = "Ok" /\ last.gone = 1
    /\ Caller \notin process_table
    /\ session_table = {}

\* C6: between public operations every registered group has a member and
\* every registered session has a group.
C6_NoEmptyGroupOrSession ==
    ~halted =>
      /\ \A g \in process_group_table : processes[g] # {}
      /\ \A x \in session_table : process_groups[x] # {}

\* C6 witness: a set_group has emptied a group, which is deregistered
C6_Witness ==
    /\ last.op = "set_group" /\ last.res = "Ok" /\ last.gone = 1
    /\ ~halted

\* C7: a session leader that calls set_group gets PermissionDenied,
\* whatever the group id.
C7_LeaderAlwaysDenied ==
    (last.op = "set_group" /\ ~halted
       /\ group[Caller] # None /\ session[group[Caller]] = Caller)
      => last.res = "PermissionDenied"

\* C7 as amended: a session leader that calls set_group with a group id
\* other than that of its current group gets PermissionDenied.
C7_LeaderDeniedOtherGroup ==
    ~halted =>
      \A p \in process_table, pgid \in PgidArgs, build \in Builds :
         (group[p] # None /\ session[group[p]] = p /\ pgid # group[p])
            => set_group(St, p, pgid, build).res = "PermissionDenied"

\* C7 witness: a session leader has been denied
C7_Witness ==
    /\ last.op = "set_group" /\ last.res = "PermissionDenied"
    /\ group[Caller] # None /\ session[group[Caller]] = Caller

\* C8: create_session called by a session leader returns success and
\* changes no table and no membership set.
C8_LeaderCreateSessionNoop ==
    [][(last'.op = "create_session"
          /\ group[last'.pid] # None /\ session[group[last'.pid]] = last'.pid)
         => (last'.res = "Ok" /\ UNCHANGED heap)]_vars

C10_CreateSession ==
    [][(last'.op = "create_session" /\ last'.res = "Ok"
          /\ group[last'.pid] # None /\ session[group[last'.pid]] # last'.pid) =>
         LET c == last'.pid
             g == group[c]
             x == session[g]
         IN  /\ group'[c] = c
             /\ c \in process_group_table'
             /\ processes'[c] = {c}
             /\ session'[c] = c
             /\ c \in session_table'
             /\ process_groups'[c] = {c}
             /\ g # c /\ x # c
             /\ processes'[g] = processes[g] \ {c}
             /\ (processes'[g] # {}) = (g \in process_group_table')
             /\ process_groups'[x] =
                   process_groups[x] \ (IF processes[g] \subseteq {c} THEN {g} ELSE {})
             /\ (process_groups'[x] # {}) = (x \in session_table')]_vars

\* C10 witness: a member of a group with other members has created a session
C10_Witness ==
    /\ last.op = "create_session" /\ last.res = "Ok" /\ last.gone = 0
    /\ group[Caller] = Caller /\ session[Caller] = Caller
    /\ \E g \in process_group_table \ {Caller} : processes[g] # {}

\* the session of p's current group, None when the group does not resolve
SessionOf(s, p) == IF s.group[p] = None THEN None ELSE s.session[s.group[p]]

\* C11: set_group(pgid) returns PermissionDenied when a group pgid is
\* registered but belongs to a session other than the caller's, and when no
\* group pgid is registered and pgid is not the caller's pid.
C11_SetGroupDenied ==
    ~halted =>
      \A p \in process_table, pgid \in PgidArgs, build \in Builds :
         (\/ pgid \in process_group_table /\ session[pgid] # SessionOf(St, p)
          \/ pgid \notin process_group_table /\ pgid # p)
            => set_group(St, p, pgid, build).res = "PermissionDenied"

\* the state before boot, as one value
EmptyHeap ==
    [process_table |-> {}, process_group_table |-> {}, session_table |-> {},
     children |-> [p \in Pids |-> {}], parent |-> [p \in Pids |-> None],
     group |-> [p \in Pids |-> None], is_zombie |-> [p \in Pids |-> FALSE],
     processes |-> [p \in Pids |-> {}], session |-> [p \in Pids |-> None],
     process_groups |-> [p \in Pids |-> {}], res |-> "Ok"]

\* the state after new_init(1); P1.new_child(2); P2.set_group(2);
\* P2.set_group(1): process 2 has joined the group of the session leader
JoinedLeaderGroup ==
    LET s1 == new_child(new_init(EmptyHeap, 1), 1, 2)
        s2 == Normalize(set_group(s1, 2, 2, NoRelock))
    IN  Normalize(set_group(s2, 2, 1, NoRelock))

InitJoined ==
    /\ next_pid = 3
    /\ calls = 0
    /\ \E s \in {JoinedLeaderGroup} :
         /\ process_table = s.process_table
         /\ process_group_table = s.process_group_table
         /\ session_table = s.session_table
         /\ children = s.children
         /\ parent = s.parent
         /\ group = s.group
         /\ is_zombie = s.is_zombie
         /\ processes = s.processes
         /\ session = s.session
         /\ process_groups = s.process_groups
    /\ halted = FALSE
    /\ last = [op |-> "set_group", pid |-> 2, res |-> "Ok", kids |-> 0, gone |-> 1]
    /\ NoThreads
    /\ NoOverlap

\* the operations that change the tree or the membership
NextJoined == NewChild \/ CreateSession \/ SetGroup \/ Exit \/ Free

\* the operations that follow once a process has joined its leader's group
SpecJoined == InitJoined /\ [][NextJoined]_vars

\* C12: a successful set_group(t) to another group by a process that is no
\* session leader leaves the process with group t, group t registered with
\* the process as member, the process member of no other group, and the
\* session of group t the session the process had, still registered.
C12_SetGroup ==
    ~halted =>
      \A p \in process_table, t \in PgidArgs, build \in Builds :
         \A r \in {set_group(St, p, t, build)}, x \in {SessionOf(St, p)} :
            (r.res = "Ok" /\ t # group[p] /\ x # p) =>
               \A n \in {Normalize(r)} :
                  /\ n.group[p] = t
                  /\ t \in n.process_group_table
                  /\ p \in n.processes[t]
                  /\ \A g \in Pids \ {t} : p \notin n.processes[g]
                  /\ n.session[t] = x
                  /\ x \in n.session_table

\* C12 witness: the only member of the only group of a session, not its
\* leader, has moved to a group of its own, and the session has that group
C12_Witness ==
    /\ last.op = "set_group" /\ last.res = "Ok" /\ last.gone = 1
    /\ ~halted
    /\ group[Caller] = Caller /\ session[Caller] # Caller
    /\ session[Caller] \in session_table
    /\ process_groups[session[Caller]] = {Caller}
    /\ processes[Caller] = {Caller}

\* C13: set_group with the id of the caller's current group returns success
\* and changes nothing; so does the repetition of a set_group that succeeded.
C13_SetGroupIdempotent ==
    ~halted =>
      \A p \in process_table :
         /\ group[p] # None =>
              \A r \in {set_group(St, p, group[p], NoRelock)} :
                 /\ r.res = "Ok" /\ Normalize(r) = St
                 /\ \A build \in Builds : set_group(St, p, group[p], build) = r
         /\ \A t \in PgidArgs :
              \A r \in {set_group(St, p, t, NoRelock)} :
                 r.res = "Ok" =>
                    \A n \in {Normalize(r)} :
                       \A build \in Builds :
                          \A q \in {set_group(n, p, t, build)} :
                             q.res = "Ok" /\ Normalize(q) = n

\* C13 witness: a session leader, which set_group lets pass with its current
\* group only, has called set_group and got success
C13_Witness ==
    /\ last.op = "set_group" /\ last.res = "Ok" /\ last.gone = 0
    /\ ~halted
    /\ group[Caller] # None /\ session[group[Caller]] = Caller

\* C14: a set_group or create_session that returns PermissionDenied leaves
\* the three tables, every member set, every group set and every group
\* reference as they were before the call.
C14_NoPartialMutation ==
    [][(last'.op \in {"set_group", "create_session"}
          /\ last'.res = "PermissionDenied")
         => UNCHANGED heap]_vars

\* C14 witness: a member of a group with no other member, not a session
\* leader, has been denied by set_group
C14_Witness ==
    /\ last.op = "set_group" /\ last.res = "PermissionDenied"
    /\ group[Caller] # None /\ session[group[Caller]] # Caller
    /\ processes[group[Caller]] = {Caller}

\* C15: exit changes neither the three tables nor any group reference,
\* member set, session reference or group set: the caller is a zombie in the
\* group it was in; and a zombie leaves the process table by its own free
\* only.
C15_ExitKeepsMembership ==
    [][/\ last'.op = "exit" =>
            /\ UNCHANGED <<process_table, process_group_table, session_table,
                           group, processes, session, process_groups>>
            /\ is_zombie'[last'.pid]
       /\ \A z \in process_table :
            (is_zombie[z] /\ z \notin process_table')
               => (last'.op = "free" /\ last'.pid = z)]_vars

\* C15 witness: a member of a registered group has exited and is a zombie in
\* that group
C15_Witness ==
    /\ last.op = "exit" /\ ~halted
    /\ is_zombie[Caller] /\ Caller \in process_table
    /\ group[Caller] \in process_group_table
    /\ Caller \in processes[group[Caller]]
    /\ session[group[Caller]] \in session_table

\* the children of p that a filter selects: all, the one with the pid, those
\* whose group has the id
Matching(p, f) ==
    {c \in children[p] :
        \/ f.kind = "Any"
        \/ f.kind = "WithPid" /\ c = f.id
        \/ f.kind = "WithPgid" /\ group[c] = f.id}

\* C16: find_zombie_child never faults; it returns NotFound exactly when no
\* child matches the filter, else the matching zombie of lowest pid, else an
\* empty success.
C16_FindZombieChild ==
    ~halted =>
      \A p \in process_table, f \in Filters :
         \A r \in {find_zombie_child(St, p, f)} :
            LET found   == Matching(p, f)
                zombies == {c \in found : is_zombie[c]}
            IN  /\ r.res # "panic"
                /\ (r.res = "NotFound") <=> (found = {})
                /\ (found # {} /\ zombies = {}) => (r.res = "Ok" /\ r.zombie = None)
                /\ zombies # {} =>
                      /\ r.res = "Ok"
                      /\ r.zombie \in zombies
                      /\ \A y \in zombies : r.zombie <= y

\* C17: after exit called by a process that has no parent, the caller has no
\* children.
C17_RootExitClearsChildren ==
    [][(last'.op = "exit" /\ parent[last'.pid] = None)
         => children'[last'.pid] = {}]_vars

----------------------------------------------------------------------------
\* The thread group of one process: its threads exit, in any order, and the
\* process may be told to exit as a group.  Thread::exit holds the lock of
\* the thread group from its first to its last statement, so that each call
\* is one step.

\* the init process with a thread group of one to MaxTid threads
InitThreads ==
    /\ next_pid = 2
    /\ calls = 0
    /\ \E s \in {Normalize(new_init(EmptyHeap, 1))} :
         /\ process_table = s.process_table
         /\ process_group_table = s.process_group_table
         /\ session_table = s.session_table
         /\ children = s.children
         /\ parent = s.parent
         /\ group = s.group
         /\ is_zombie = s.is_zombie
         /\ processes = s.processes
         /\ session = s.session
         /\ process_groups = s.process_groups
    /\ halted = FALSE
    /\ last = [op |-> "new_init", pid |-> 1, res |-> "Ok", kids |-> 0, gone |-> 0]
    /\ threads \in SUBSET Tids \ {{}}
    /\ exit_code = 0
    /\ group_exited = FALSE
    /\ tcalls = NoCalls
    /\ NoOverlap

\* a thread of the group, one that has exited before included, calls exit
ExitThread ==
    /\ tcalls.n < MaxExit
    /\ \E tid \in threads \cup tcalls.exited, code \in Codes :
         \E r \in {ThreadExit(Tg, tid, code)} :
            /\ threads' = r.tg.threads
            /\ exit_code' = r.tg.exit_code
            /\ group_exited' = r.tg.group_exited
            /\ tcalls' = [n |-> tcalls.n + 1,
                          exited |-> tcalls.exited \cup {tid},
                          repeated |-> tcalls.repeated \/ tid \in tcalls.exited,
                          trues |-> tcalls.trues + (IF r.ret THEN 1 ELSE 0),
                          true_by |-> IF r.ret THEN tid ELSE tcalls.true_by,
                          op |-> "exit", tid |-> tid, code |-> code, ret |-> r.ret]
    /\ UNCHANGED <<next_pid, calls, heap, halted, last, cc>>

GroupExit ==
    /\ \E g \in {group_exit(Tg)} :
         /\ threads' = g.threads
         /\ exit_code' = g.exit_code
         /\ group_exited' = g.group_exited
    /\ tcalls' = [tcalls EXCEPT !.op = "group_exit", !.tid = None, !.code = 0,
                                !.ret = FALSE]
    /\ UNCHANGED <<next_pid, calls, heap, halted, last, cc>>

NextThreads == ExitThread \/ GroupExit

SpecThreads == InitThreads /\ [][NextThreads]_vars

\* a step of Thread::exit
ExitStep == tcalls'.op = "exit" /\ tcalls'.n = tcalls.n + 1

\* C18: Thread::exit removes the caller and returns true if and only if the
\* thread group is then empty; when no thread calls exit twice, no call has
\* returned true while a thread remains, and once none remains exactly one
\* call has returned true, the last one.
C18_LastThreadExit ==
    [][ExitStep =>
         /\ threads' = threads \ {tcalls'.tid}
         /\ tcalls'.ret <=> (threads' = {})
         /\ ~tcalls'.repeated =>
               /\ threads' # {} => tcalls'.trues = 0
               /\ threads' = {} =>
                     (tcalls'.trues = 1 /\ tcalls'.true_by = tcalls'.tid)]_vars

\* C18 witness: the threads of a group of several threads have all exited,
\* each once
C18_Witness ==
    /\ threads = {} /\ ~tcalls.repeated
    /\ Cardinality(tcalls.exited) >= 2
    /\ tcalls.op = "exit" /\ tcalls.ret /\ tcalls.trues = 1

\* C19: while group_exited is false Thread::exit(code) sets the exit code to
\* code; once it is true no Thread::exit changes the exit code; group_exit
\* sets group_exited, which no step resets.
C19_ExitCode ==
    [][/\ ExitStep =>
            /\ exit_code' = (IF group_exited THEN exit_code ELSE tcalls'.code)
            /\ group_exited' = group_exited
       /\ tcalls'.op = "group_exit" => (group_exited' /\ exit_code' = exit_code)
       /\ group_exited => group_exited']_vars

\* C19 witness: after group_exit a thread has exited with a code other than
\* the one that an earlier exit had written, and the earlier code stands
C19_Witness ==
    /\ group_exited /\ tcalls.op = "exit"
    /\ exit_code \in Codes /\ tcalls.code # exit_code

----------------------------------------------------------------------------
\* Locks.  Each operation is unfolded into the lock events it makes, in
\* program order, in the state it is called in: a guard bound by `let` is
\* released at the end of its block, in reverse order of declaration; a guard
\* that is a temporary of a statement is released at the end of the statement.
\* The ranks are Process (Process.inner), ProcessGroup, Session and Table (the
\* three global tables).

\* the three tables, as ids of the locks of rank Table
PROCESS_TABLE == 1

PROCESS_GROUP_TABLE == 2

SESSION_TABLE == 3

Acq(rank, id) == <<[a |-> "acq", rank |-> rank, id |-> id]>>

Rel(rank, id) == <<[a |-> "rel", rank |-> rank, id |-> id]>>

\* a guard taken and released within one statement
Tmp(rank, id) == Acq(rank, id) \o Rel(rank, id)

RECURSIVE Ascending(_)
\* the elements of a set of ids by ascending id, the order of a BTreeMap
Ascending(set) ==
    IF set = {} THEN <<>>
    ELSE LET m == CHOOSE x \in set : \A y \in set : x <= y
         IN  <<m>> \o Ascending(set \ {m})

RECURSIVE Flatten(_)
\* the concatenation of a sequence of sequences
Flatten(ss) == IF ss = <<>> THEN <<>> ELSE Head(ss) \o Flatten(Tail(ss))

\* Process::new_child: Process::new locks the process table for its insert;
\* then `inner` guards the caller to the end of the function, and
\* child.inner() is taken under it
new_child_locks(s, p, pid) ==
    Tmp("Table", PROCESS_TABLE) \o Acq("Process", p) \o Tmp("Process", pid)
      \o Rel("Process", p)

\* Process::move_children_to: `inner` and `target_inner` are held over the
\* loop, in which child.inner() is taken for each child
move_children_to_locks(s, p, target) ==
    LET cs == Ascending(s.children[p])
    IN  Acq("Process", p) \o Acq("Process", target)
          \o Flatten([i \in 1..Len(cs) |-> Tmp("Process", cs[i])])
          \o Rel("Process", target) \o Rel("Process", p)

RECURSIVE Chain(_, _)
\* the processes on which the loop of Process::exit calls parent()
Chain(s, q) == IF q = None THEN <<>> ELSE <<q>> \o Chain(s, s.parent[q])

\* Process::exit: parent() locks one process at a time; then
\* move_children_to when there is an ancestor
exit_locks(s, p) ==
    LET up == Chain(s, p)
    IN  Flatten([i \in 1..Len(up) |-> Tmp("Process", up[i])])
          \o (IF s.parent[p] # None
              THEN move_children_to_locks(s, p, TopAncestor(s, s.parent[p]))
              ELSE <<>>)

\* Process::unlink
unlink_locks(s, p, drop_session) ==
    IF ~GroupResolves(s, p) THEN Tmp("Process", p)
    ELSE
    LET g == s.group[p]
        x == s.session[g]
    IN  Tmp("Process", p) \o Acq("ProcessGroup", g)
          \o (IF s.processes[g] \subseteq {p}
              THEN Tmp("Table", PROCESS_GROUP_TABLE)
                     \o (IF x = None THEN <<>>
                         ELSE Acq("Session", x)
                                \o (IF drop_session /\ s.process_groups[x] \subseteq {g}
                                    THEN Tmp("Table", SESSION_TABLE) ELSE <<>>)
                                \o Rel("Session", x))
              ELSE <<>>)
          \o Rel("ProcessGroup", g)

\* Process::free
free_locks(s, p) ==
    unlink_locks(s, p, TRUE)
      \o (IF unlink(s, p, TRUE, FALSE).res = "Ok" THEN Tmp("Table", PROCESS_TABLE) ELSE <<>>)

\* the locks held after the first i events: taken more often than released
\* (a lock without an owner can be taken again by its holder where the build
\* lets the second lock() through)
Held(tr, i) ==
    {l \in {[rank |-> tr[j].rank, id |-> tr[j].id] : j \in 1..i} :
        Cardinality({j \in 1..i : tr[j] = [a |-> "acq", rank |-> l.rank, id |-> l.id]})
          > Cardinality({j \in 1..i : tr[j] = [a |-> "rel", rank |-> l.rank, id |-> l.id]})}

\* at no point are two locks of one rank held
OneOfARank(tr) ==
    \A i \in 1..Len(tr) :
       \A l1, l2 \in Held(tr, i) : l1.rank = l2.rank => l1 = l2

\* C20: new_child, exit and free never hold two locks of one rank, so never
\* the inner locks of two processes.
C20_OneLockOfARank ==
    ~halted =>
      /\ \A p \in Running :
            next_pid <= MaxPid => OneOfARank(new_child_locks(St, p, next_pid))
      /\ \A p \in Running : OneOfARank(exit_locks(St, p))
      /\ \A p \in process_table : is_zombie[p] => OneOfARank(free_locks(St, p))

\* ProcessGroup::new(&process): of its locks, the registration of the group
\* in the process-group table
ProcessGroupNew_locks == Tmp("Table", PROCESS_GROUP_TABLE)

\* Session::new(&group): of its locks, the registration of the session in the
\* session table
SessionNew_locks == Tmp("Table", SESSION_TABLE)

\* Process::create_session: contains_key locks the process-group table for
\* its statement, self.session() is self.group().session()
create_session_locks(s, p) ==
    Tmp("Table", PROCESS_GROUP_TABLE)
      \o (IF PgidTaken(s, p) THEN <<>>
          ELSE IF ~GroupResolves(s, p) THEN Tmp("Process", p)
          ELSE Tmp("Process", p) \o Tmp("ProcessGroup", s.group[p])
                 \o (IF s.session[s.group[p]] = None \/ IsSessionLeader(s, p)
                     THEN <<>>
                     ELSE unlink_locks(s, p, TRUE)
                            \o ProcessGroupNew_locks \o SessionNew_locks))

\* Process::set_group.  The guard
\* of process_group_table() is a temporary of the scrutinee of `if let`: it
\* lives to the end of the then-block, and to the end of the else-block too
\* before edition 2024.
set_group_locks(s, p, pgid, edition) ==
    IF ~GroupResolves(s, p) \/ pgid = s.group[p] THEN Tmp("Process", p)
    ELSE
    LET g == s.group[p]
        x == s.session[g]
    IN  Tmp("Process", p) \o Tmp("ProcessGroup", g)
          \o (IF x = None \/ IsSessionLeader(s, p) THEN <<>>
              ELSE IF pgid \in s.process_group_table
              THEN Acq("Table", PROCESS_GROUP_TABLE)
                     \o Tmp("Session", x)
                     \o (IF pgid \notin s.process_groups[x] THEN <<>>
                         ELSE unlink_locks(s, p, FALSE)
                                \o Tmp("ProcessGroup", pgid) \o Tmp("Process", p))
                     \o Rel("Table", PROCESS_GROUP_TABLE)
              ELSE Acq("Table", PROCESS_GROUP_TABLE)
                     \o (IF edition < 2024 THEN <<>> ELSE Rel("Table", PROCESS_GROUP_TABLE))
                     \o (IF pgid # p THEN <<>>
                         ELSE unlink_locks(s, p, FALSE) \o ProcessGroupNew_locks
                                \o Tmp("ProcessGroup", p) \o Tmp("Session", x))
                     \o (IF edition < 2024 THEN Rel("Table", PROCESS_GROUP_TABLE) ELSE <<>>))

\* the place of a rank in the order Process, ProcessGroup, Session, Table
RankOf(rank) ==
    CASE rank = "Process" -> 1
      [] rank = "ProcessGroup" -> 2
      [] rank = "Session" -> 3
      [] rank = "Table" -> 4

\* no lock is taken while a lock of a later rank is held
InRankOrder(tr) ==
    \A i \in 1..Len(tr) :
       tr[i].a = "acq" =>
          \A l \in Held(tr, i - 1) : RankOf(l.rank) <= RankOf(tr[i].rank)

\* no ProcessGroup or Session lock is taken while a table is locked
NoEntityLockUnderTable(tr) ==
    \A i \in 1..Len(tr) :
       tr[i].a = "acq" /\ tr[i].rank \in {"ProcessGroup", "Session"} =>
          \A l \in Held(tr, i - 1) : l.rank # "Table"

\* no table is locked before a Session lock that is taken later
NoTableBeforeSession(tr) ==
    \A i, j \in 1..Len(tr) :
       i < j /\ tr[i].a = "acq" /\ tr[j].a = "acq" =>
          ~(tr[i].rank = "Table" /\ tr[j].rank = "Session")

LockOrder(tr) ==
    InRankOrder(tr) /\ NoEntityLockUnderTable(tr) /\ NoTableBeforeSession(tr)

\* C21: every operation takes its locks in the order Process, ProcessGroup,
\* Session, table: none takes a ProcessGroup or Session lock while it holds a
\* table, nor locks a table before a Session lock it takes later.
C21_LockOrder ==
    ~halted =>
      /\ \A p \in Running :
            next_pid <= MaxPid => LockOrder(new_child_locks(St, p, next_pid))
      /\ \A p \in Running : LockOrder(exit_locks(St, p))
      /\ \A p \in process_table : is_zombie[p] => LockOrder(free_locks(St, p))
      /\ \A p \in process_table : LockOrder(create_session_locks(St, p))
      /\ \A p \in process_table, pgid \in PgidArgs, build \in Builds :
            LockOrder(set_group_locks(St, p, pgid, build.edition))

\* a lock is taken that is held already
TakesHeldLock(tr) ==
    \E i \in 1..Len(tr) :
       /\ tr[i].a = "acq"
       /\ [rank |-> tr[i].rank, id |-> tr[i].id] \in Held(tr, i - 1)

\* C23: set_group never takes a lock it holds already, and so returns, in
\* every build: also when the caller is the last member of its group and
\* when the new group is created and registered.
C23_SetGroupReturns ==
    ~halted =>
      \A p \in process_table, pgid \in PgidArgs, build \in Builds :
         /\ ~TakesHeldLock(set_group_locks(St, p, pgid, build.edition))
         /\ set_group(St, p, pgid, build).res # "deadlock"

----------------------------------------------------------------------------
\* Overlapping calls.  Each call runs in its own kernel context; a step is
\* what a call does up to its next lock() on a Process.inner, which blocks
\* while another call holds the lock (axsync::Mutex).  A guard that is a
\* temporary is taken and released within one step.

RECURSIVE Forked(_)
\* the trees of k processes: new_init(1), then each of 2..k forked by an
\* earlier one
Forked(k) ==
    IF k = 1 THEN {Normalize(new_init(EmptyHeap, 1))}
    ELSE {Normalize(new_child(s, p, k)) : s \in Forked(k - 1), p \in 1..(k - 1)}

\* a call of exit, at its first statement
ExitCall == [Idle EXCEPT !.op = "exit", !.pc = "store"]

\* a call of new_child(pid), at its first statement
NewChildCall(pid) == [Idle EXCEPT !.op = "new_child", !.pc = "new", !.pid = pid]

\* the calls that have not returned
Pending == {p \in Pids : frame[p].pc # "done"}

\* a tree of MaxPid - 1 processes; exit is called on some of them and
\* new_child, with the one id left, on at most one other, all at once
InitOverlap ==
    /\ next_pid = MaxPid
    /\ calls = 0
    /\ \E s \in Forked(MaxPid - 1) :
         /\ process_table = s.process_table
         /\ process_group_table = s.process_group_table
         /\ session_table = s.session_table
         /\ children = s.children
         /\ parent = s.parent
         /\ group = s.group
         /\ is_zombie = s.is_zombie
         /\ processes = s.processes
         /\ session = s.session
         /\ process_groups = s.process_groups
    /\ halted = FALSE
    /\ last = [op |-> "new_child", pid |-> parent[MaxPid - 1], res |-> "Ok",
               kids |-> 0, gone |-> 0]
    /\ NoThreads
    /\ owner = [p \in Pids |-> None]
    /\ \E exits \in SUBSET (1..(MaxPid - 1)), forks \in SUBSET (1..(MaxPid - 1)) :
         /\ exits \cap forks = {}
         /\ exits \cup forks # {}
         /\ Cardinality(forks) <= 1
         /\ frame = [p \in Pids |-> IF p \in exits THEN ExitCall
                                    ELSE IF p \in forks THEN NewChildCall(MaxPid)
                                    ELSE Idle]

\* a step of an overlapping call: the kernel runs, and the record of the
\* calls made one at a time stays as it is
Overlapping == ~halted /\ UNCHANGED <<next_pid, calls, halted, last, tg>>

\* exit, line 248: is_zombie.store(true)
ExitStore(p) ==
    /\ Overlapping
    /\ frame[p].op = "exit" /\ frame[p].pc = "store"
    /\ is_zombie' = [is_zombie EXCEPT ![p] = TRUE]
    /\ frame' = [frame EXCEPT ![p].pc = "parent", ![p].cur = p]
    /\ UNCHANGED <<process_table, process_group_table, session_table, children,
                   parent, group, processes, session, process_groups, owner>>

\* exit, lines 251-257: one call of parent() of the walk up the parent chain
ExitParent(p) ==
    /\ Overlapping
    /\ frame[p].op = "exit" /\ frame[p].pc = "parent"
    /\ owner[frame[p].cur] = None
    /\ frame' = [frame EXCEPT
                   ![p] = IF parent[frame[p].cur] # None
                          THEN [@ EXCEPT !.cur = parent[frame[p].cur],
                                         !.init = parent[frame[p].cur]]
                          ELSE IF frame[p].init # None
                          THEN [@ EXCEPT !.pc = "inner"]
                          ELSE [@ EXCEPT !.pc = "done"]]
    /\ UNCHANGED <<heap, owner>>

\* move_children_to, line 232: let mut inner = self.inner()
MoveLockSelf(p) ==
    /\ Overlapping
    /\ frame[p].op = "exit" /\ frame[p].pc = "inner"
    /\ owner[p] = None
    /\ owner' = [owner EXCEPT ![p] = p]
    /\ frame' = [frame EXCEPT ![p].pc = "target_inner"]
    /\ UNCHANGED heap

\* move_children_to, lines 233-235: let mut target_inner = target.inner(),
\* then mem::take of the caller's children
MoveLockTarget(p) ==
    /\ Overlapping
    /\ frame[p].op = "exit" /\ frame[p].pc = "target_inner"
    /\ owner[frame[p].init] = None
    /\ owner' = [owner EXCEPT ![frame[p].init] = p]
    /\ children' = [children EXCEPT ![p] = {}]
    /\ frame' = [frame EXCEPT ![p].pc = "child", ![p].todo = children[p]]
    /\ UNCHANGED <<process_table, process_group_table, session_table,
                   parent, group, is_zombie, processes, session, process_groups>>

\* move_children_to, lines 236-237: one turn of the loop, the children by
\* ascending pid
MoveChild(p) ==
    /\ Overlapping
    /\ frame[p].op = "exit" /\ frame[p].pc = "child"
    /\ frame[p].todo # {}
    /\ \E c \in {Ascending(frame[p].todo)[1]} :
         /\ owner[c] = None
         /\ parent' = [parent EXCEPT ![c] = frame[p].init]
         /\ children' = [children EXCEPT ![frame[p].init] = @ \cup {c}]
         /\ frame' = [frame EXCEPT ![p].todo = @ \ {c}]
    /\ UNCHANGED <<process_table, process_group_table, session_table,
                   group, is_zombie, processes, session, process_groups, owner>>

\* move_children_to, line 239: the loop is over, both guards are dropped and
\* exit returns
MoveReturn(p) ==
    /\ Overlapping
    /\ frame[p].op = "exit" /\ frame[p].pc = "child"
    /\ frame[p].todo = {}
    /\ owner' = [owner EXCEPT ![p] = None, ![frame[p].init] = None]
    /\ frame' = [frame EXCEPT ![p].pc = "done"]
    /\ UNCHANGED heap

\* new_child, line 75: Process::new
ForkNew(p) ==
    /\ Overlapping
    /\ frame[p].op = "new_child" /\ frame[p].pc = "new"
    /\ \E s \in {ProcessNew(St, frame[p].pid, p)} :
         /\ process_table' = s.process_table
         /\ children' = s.children
         /\ parent' = s.parent
         /\ group' = s.group
         /\ is_zombie' = s.is_zombie
    /\ frame' = [frame EXCEPT ![p].pc = "inner"]
    /\ UNCHANGED <<process_group_table, session_table, processes, session,
                   process_groups, owner>>

\* new_child, lines 76-77: let mut inner = self.inner(), then the insert
ForkLockSelf(p) ==
    /\ Overlapping
    /\ frame[p].op = "new_child" /\ frame[p].pc = "inner"
    /\ owner[p] = None
    /\ owner' = [owner EXCEPT ![p] = p]
    /\ children' = [children EXCEPT ![p] = @ \cup {frame[p].pid}]
    /\ frame' = [frame EXCEPT ![p].pc = "child"]
    /\ UNCHANGED <<process_table, process_group_table, session_table,
                   parent, group, is_zombie, processes, session, process_groups>>

\* new_child, lines 78-80: child.inner().group = inner.group.clone(), then
\* the guard is dropped and new_child returns
ForkChild(p) ==
    /\ Overlapping
    /\ frame[p].op = "new_child" /\ frame[p].pc = "child"
    /\ owner[frame[p].pid] = None
    /\ group' = [group EXCEPT ![frame[p].pid] = group[p]]
    /\ owner' = [owner EXCEPT ![p] = None]
    /\ frame' = [frame EXCEPT ![p].pc = "done"]
    /\ UNCHANGED <<process_table, process_group_table, session_table, children,
                   parent, is_zombie, processes, session, process_groups>>

\* the next step of the call on p
Step(p) ==
    \/ ExitStore(p)
    \/ ExitParent(p)
    \/ MoveLockSelf(p)
    \/ MoveLockTarget(p)
    \/ MoveChild(p)
    \/ MoveReturn(p)
    \/ ForkNew(p)
    \/ ForkLockSelf(p)
    \/ ForkChild(p)

NextOverlap == \E p \in Pids : Step(p)

\* every call is scheduled again and again: a call that can take its next
\* step does not wait for ever
Fairness == \A p \in Pids : WF_vars(Step(p))

SpecOverlap == InitOverlap /\ [][NextOverlap]_vars /\ Fairness

\* C22: calls of exit and new_child on distinct processes, made at once, all
\* return: also exit on a process and exit on one of its children, both
\* below the topmost ancestor.
C22_CallsReturn == <>(Pending = {})
====
